---- MODULE Spec2Model ----
(***************************************************************************)
(* Model of the obesity-prediction input pipeline (predictor.py) and of    *)
(* the BMI bucketing shown by the form (app.py).                           *)
(*                                                                         *)
(* Texts are sequences of characters, so that accent folding, case         *)
(* folding, trimming, equality and substring tests are computed as the     *)
(* code computes them.  Numbers are fixed-point, in thousandths.           *)
(***************************************************************************)
EXTENDS Integers, Sequences, FiniteSets, TLC

VARIABLES
    operacao,     \* the function that was called: "nenhuma" before the call
    df_entrada,   \* the call's argument: a frame, a list of records, two BMI values
    forma,        \* container of the argument of prever_obesidade
    feature_names,\* model.feature_names_in_, NoFeatureNames when the model has none
    preds,        \* what model.predict returned, one raw label per row
    df_usuario,   \* frame after calcular_imc / calcular_estilo
    df_proc,      \* frame after _renomear_colunas / _aplicar_schema
    retorno,      \* the value the call returned
    erro          \* "" when the call returned, otherwise the step that raised

vars == <<operacao, df_entrada, forma, feature_names, preds, df_usuario, df_proc,
          retorno, erro>>

----------------------------------------------------------------------------
(* Bounds of the model.                                                    *)

\* longest run of padding characters put before and after a vocabulary token
MaxPad == 1
\* most records of a batch handed to prever_obesidade
MaxLote == 2
\* BMI values tried on each side of every cut point of classificar_imc
MaxDelta == 2

\* thousandths per unit of the fixed-point numbers
Milli == 10 * 100

----------------------------------------------------------------------------
(* Characters and texts.                                                   *)

\* combining marks (Unicode category Mn) that NFD produces
GRAVE == "U+0300"
ACUTE == "U+0301"
TILDE == "U+0303"

\* unicodedata.category(c) = 'Mn'
IsMn(c) == c \in {GRAVE, ACUTE, TILDE}

\* unicodedata.normalize('NFD', c) for one character
NFDChar(c) ==
    CASE c = "à" -> <<"a", GRAVE>>
      [] c = "À" -> <<"A", GRAVE>>
      [] c = "á" -> <<"a", ACUTE>>
      [] c = "ã" -> <<"a", TILDE>>
      [] c = "é" -> <<"e", ACUTE>>
      [] c = "É" -> <<"E", ACUTE>>
      [] c = "ó" -> <<"o", ACUTE>>
      [] c = "ú" -> <<"u", ACUTE>>
      [] OTHER -> <<c>>

\* str.lower() for one character
LowerChar(c) ==
    CASE c = "A" -> "a" [] c = "B" -> "b" [] c = "C" -> "c" [] c = "E" -> "e"
      [] c = "F" -> "f" [] c = "I" -> "i" [] c = "M" -> "m" [] c = "N" -> "n" [] c = "O" -> "o"
      [] c = "P" -> "p" [] c = "Q" -> "q" [] c = "S" -> "s" [] c = "T" -> "t" [] c = "W" -> "w"
      [] c = "X" -> "x" [] c = "Y" -> "y"
      [] c = "À" -> "à" [] c = "É" -> "é"
      [] OTHER -> c

IsSpace(c) == c = " "

RECURSIVE NFD(_)
NFD(s) == IF s = <<>> THEN <<>> ELSE NFDChar(Head(s)) \o NFD(Tail(s))

\* predictor.py _strip_accents: NFD, then drop the combining marks
_strip_accents(s) == SelectSeq(NFD(s), LAMBDA c : ~IsMn(c))

RECURSIVE LStrip(_)
LStrip(s) == IF s # <<>> /\ IsSpace(Head(s)) THEN LStrip(Tail(s)) ELSE s

RECURSIVE RStrip(_)
RStrip(s) ==
    IF s # <<>> /\ IsSpace(s[Len(s)]) THEN RStrip(SubSeq(s, 1, Len(s) - 1)) ELSE s

\* str.strip()
Strip(s) == RStrip(LStrip(s))

\* str.lower()
Lower(s) == [i \in 1..Len(s) |-> LowerChar(s[i])]

\* sub in s, for texts
Contains(s, sub) ==
    \E i \in 0..(Len(s) - Len(sub)) : SubSeq(s, i + 1, i + Len(sub)) = sub

----------------------------------------------------------------------------
(* Cell values of a DataFrame / values of a dict.                          *)

Str(s) == [t |-> "str", s |-> s, n |-> 0]
Num(n) == [t |-> "num", s |-> <<>>, n |-> n]
NaN    == [t |-> "nan", s |-> <<>>, n |-> 0]
None   == [t |-> "none", s |-> <<>>, n |-> 0]

DigitVal(c) ==
    CASE c = "0" -> 0 [] c = "1" -> 1 [] c = "2" -> 2 [] c = "3" -> 3 [] c = "7" -> 7
      [] OTHER -> -1

RECURSIVE DigitsVal(_)
DigitsVal(s) ==
    IF s = <<>> THEN 0 ELSE 10 * DigitsVal(SubSeq(s, 1, Len(s) - 1)) + DigitVal(s[Len(s)])

IsDigits(s) == s # <<>> /\ \A i \in 1..Len(s) : DigitVal(s[i]) >= 0

\* str(x), the text Python gives a cell; the cells of the model that reach
\* str() are texts, missing values (NaN) and None
PyStr(x) ==
    CASE x.t = "str"  -> x.s
      [] x.t = "nan"  -> <<"n", "a", "n">>
      [] x.t = "none" -> <<"N", "o", "n", "e">>

\* predictor.py _norm
_norm(x) == Lower(Strip(_strip_accents(PyStr(x))))

----------------------------------------------------------------------------
(* The schema of predictor.py.                                             *)

GENERO      == "Gênero"
HISTORICO   == "Histórico Familiar"
CALORICO    == "Consumo de Alimento Altamente Calórico"
CALORICOS   == "Consumo de Alimentos Altamente Calóricos"
ENTRE_REF   == "Consumo de Alimento Entre Refeições"
FUMANTE     == "Fumante"
MONITORA    == "Monitoramento de Consumo de Calorias"
ALCOOL      == "Consumo de Álcool"
TRANSPORTE  == "Meio de Transporte Utilizado"
IDADE       == "Idade"
ALTURA      == "Altura"
PESO        == "Peso"
VEGETAIS    == "Consumo de Vegetais em Refeições Principais"
REFEICOES   == "Número de Refeições Principais"
AGUA        == "Consumo de Água Diário"
ATIVIDADE   == "Frequência de Atividade Física"
DISPOSITIVOS == "Tempo de Uso de Dispositivos Tecnológicos"
IMC         == "IMC"
ESTILO      == "Estilo de vida saudável"

\* the English values, as texts
T_No         == <<"N", "o">>
T_Yes        == <<"Y", "e", "s">>
T_Sometimes  == <<"S", "o", "m", "e", "t", "i", "m", "e", "s">>
T_Frequently == <<"F", "r", "e", "q", "u", "e", "n", "t", "l", "y">>
T_Always     == <<"A", "l", "w", "a", "y", "s">>
T_Female     == <<"F", "e", "m", "a", "l", "e">>
T_Male       == <<"M", "a", "l", "e">>
T_Automobile == <<"A", "u", "t", "o", "m", "o", "b", "i", "l", "e">>
T_Bike       == <<"B", "i", "k", "e">>
T_Motorbike  == <<"M", "o", "t", "o", "r", "b", "i", "k", "e">>
T_Public     == <<"P", "u", "b", "l", "i", "c", "_", "T", "r", "a", "n", "s", "p", "o",
                  "r", "t", "a", "t", "i", "o", "n">>
T_Walking    == <<"W", "a", "l", "k", "i", "n", "g">>

\* predictor.py SCHEMA_CATEGORIAS
SCHEMA_CATEGORIAS ==
    [c \in {GENERO, HISTORICO, CALORICO, ENTRE_REF, FUMANTE, MONITORA, ALCOOL, TRANSPORTE} |->
        CASE c = GENERO -> {T_Female, T_Male}
          [] c \in {HISTORICO, CALORICO, FUMANTE, MONITORA} -> {T_No, T_Yes}
          [] c \in {ENTRE_REF, ALCOOL} -> {T_No, T_Sometimes, T_Frequently, T_Always}
          [] c = TRANSPORTE -> {T_Automobile, T_Bike, T_Motorbike, T_Public, T_Walking}]

\* predictor.py SCHEMA_NUMERICAS
SCHEMA_NUMERICAS ==
    {IDADE, ALTURA, PESO, VEGETAIS, REFEICOES, AGUA, ATIVIDADE, DISPOSITIVOS, IMC}

\* predictor.py RENAME_MAP
RENAME_MAP == [c \in {CALORICOS} |-> CALORICO]

\* the lower-case tokens the code compares with
t_sim        == <<"s", "i", "m">>
t_yes        == <<"y", "e", "s">>
t_true       == <<"t", "r", "u", "e">>
t_1          == <<"1">>
t_y          == <<"y">>
t_sempre     == <<"s", "e", "m", "p", "r", "e">>
t_always     == <<"a", "l", "w", "a", "y", "s">>
t_frequente  == <<"f", "r", "e", "q", "u", "e", "n", "t", "e">>
t_frequently == <<"f", "r", "e", "q", "u", "e", "n", "t", "l", "y">>
t_as_vezes   == <<"a", "s", " ", "v", "e", "z", "e", "s">>
t_as_vezes_acento == <<"à", "s", " ", "v", "e", "z", "e", "s">>
t_sometimes  == <<"s", "o", "m", "e", "t", "i", "m", "e", "s">>
t_carro      == <<"c", "a", "r", "r", "o">>
t_automovel  == <<"a", "u", "t", "o", "m", "o", "v", "e", "l">>
t_bicicleta  == <<"b", "i", "c", "i", "c", "l", "e", "t", "a">>
t_bike       == <<"b", "i", "k", "e">>
t_moto       == <<"m", "o", "t", "o">>
t_motocicleta == <<"m", "o", "t", "o", "c", "i", "c", "l", "e", "t", "a">>
t_transporte == <<"t", "r", "a", "n", "s", "p", "o", "r", "t", "e">>
t_pe         == <<"p", "e">>
t_fem        == <<"f", "e", "m">>

\* the affirmative tokens of the yes/no columns
Afirmativos == {t_sim, t_yes, t_true, t_1, t_y}

\* predictor.py _pt_to_en_value, the yes/no columns
MapSimNao(v) == IF v \in Afirmativos THEN T_Yes ELSE T_No

\* predictor.py _pt_to_en_value, the two frequency columns (the same chain twice)
MapFrequencia(v) ==
    IF v \in {t_sempre, t_always} THEN T_Always
    ELSE IF v \in {t_frequente, t_frequently} THEN T_Frequently
    ELSE IF v \in {t_as_vezes, t_as_vezes_acento, t_sometimes} THEN T_Sometimes
    ELSE T_No

\* a transport chain that returns the token it could not map
MapTransporteSemPadrao(v) ==
    IF v \in {t_carro, t_automovel} THEN T_Automobile
    ELSE IF v \in {t_bicicleta, t_bike} THEN T_Bike
    ELSE IF v \in {t_moto, t_motocicleta} THEN T_Motorbike
    ELSE IF Contains(v, t_transporte) THEN T_Public
    ELSE IF Contains(v, t_pe) THEN T_Walking
    ELSE v

\* predictor.py _pt_to_en_value, the transport column
MapTransporte(v) ==
    IF v \in {t_carro, t_automovel} THEN T_Automobile
    ELSE IF v \in {t_bicicleta, t_bike} THEN T_Bike
    ELSE IF v \in {t_moto, t_motocicleta} THEN T_Motorbike
    ELSE IF Contains(v, t_transporte) THEN T_Public
    ELSE IF Contains(v, t_pe) THEN T_Walking
    ELSE T_Automobile

\* predictor.py _pt_to_en_value, the gender column
MapGenero(v) == IF Contains(v, t_fem) THEN T_Female ELSE T_Male

\* predictor.py _pt_to_en_value; the result is a cell: a text for the columns of
\* the schema, val itself for any other column
_pt_to_en_value(col, val) ==
    LET v == _norm(val) IN
    IF col \in {HISTORICO, FUMANTE, MONITORA, CALORICO} THEN Str(MapSimNao(v))
    ELSE IF col = ENTRE_REF THEN Str(MapFrequencia(v))
    ELSE IF col = ALCOOL THEN Str(MapFrequencia(v))
    ELSE IF col = TRANSPORTE THEN Str(MapTransporte(v))
    ELSE IF col = GENERO THEN Str(MapGenero(v))
    ELSE val

\* pd.Categorical(values, categories=cats) for one cell: a value outside the
\* categories becomes NaN
Categorical(x, cats) == IF x.t = "str" /\ x.s \in cats THEN x ELSE NaN

----------------------------------------------------------------------------
(* DataFrames: a set of column names and a sequence of rows, each row a    *)
(* function from the columns to cells.                                      *)

Frame(cols, rows) == [columns |-> cols, rows |-> rows]

RECURSIVE KeysOf(_)
KeysOf(recs) ==
    IF recs = <<>> THEN {} ELSE (DOMAIN Head(recs)) \cup KeysOf(Tail(recs))

\* pd.DataFrame(list of dicts): the columns are the union of the keys, and a key a
\* record lacks is NaN in its row
DataFrame(recs) ==
    LET cols == KeysOf(recs) IN
    Frame(cols, [i \in 1..Len(recs) |->
                   [c \in cols |-> IF c \in DOMAIN recs[i] THEN recs[i][c] ELSE NaN]])

\* float(x) of a text: digits, surrounded by optional blanks; -1 when Python raises
ParseFloat(s) == IF IsDigits(Strip(s)) THEN DigitsVal(Strip(s)) * Milli ELSE -1

\* pd.to_numeric(x, errors="coerce") for one cell
ToNumeric(x) ==
    CASE x.t = "num" -> x
      [] x.t = "str" -> IF ParseFloat(x.s) >= 0 THEN Num(ParseFloat(x.s)) ELSE NaN
      [] OTHER -> NaN

\* df[col] = df[col].apply(lambda x: _pt_to_en_value(col, x)), then
\* df[col] = pd.Categorical(df[col], categories=cats)
NormCol(df, col) ==
    Frame(df.columns,
          [i \in 1..Len(df.rows) |->
             [c \in df.columns |->
                IF c = col
                THEN Categorical(_pt_to_en_value(col, df.rows[i][c]), SCHEMA_CATEGORIAS[col])
                ELSE df.rows[i][c]]])

RECURSIVE NormCols(_, _)
NormCols(df, cols) ==
    IF cols = {} THEN df
    ELSE LET col == CHOOSE c \in cols : TRUE
         IN  NormCols(NormCol(df, col), cols \ {col})

\* predictor.py _normalizar_categoricos
_normalizar_categoricos(df) == NormCols(df, (DOMAIN SCHEMA_CATEGORIAS) \cap df.columns)

\* df[col] = pd.to_numeric(df[col], errors="coerce").astype(float)
NumCol(df, col) ==
    Frame(df.columns,
          [i \in 1..Len(df.rows) |->
             [c \in df.columns |-> IF c = col THEN ToNumeric(df.rows[i][c]) ELSE df.rows[i][c]]])

RECURSIVE NumCols(_, _)
NumCols(df, cols) ==
    IF cols = {} THEN df
    ELSE LET col == CHOOSE c \in cols : TRUE
         IN  NumCols(NumCol(df, col), cols \ {col})

\* predictor.py _aplicar_schema
_aplicar_schema(df) ==
    NumCols(_normalizar_categoricos(df), SCHEMA_NUMERICAS \cap df.columns)

\* predictor.py _renomear_colunas (no frame of the model holds a column under both
\* of its names)
_renomear_colunas(df) ==
    LET novo(c) == IF c \in DOMAIN RENAME_MAP THEN RENAME_MAP[c] ELSE c
        velho(c) == IF c \in df.columns THEN c
                    ELSE CHOOSE o \in df.columns : novo(o) = c
    IN  Frame({novo(c) : c \in df.columns},
              [i \in 1..Len(df.rows) |->
                 [c \in {novo(o) : o \in df.columns} |-> df.rows[i][velho(c)]]])

----------------------------------------------------------------------------
(* Inputs of the schema step.                                              *)

\* what the form of app.py offers, and other spellings
U_Sim        == <<"S", "i", "m">>
U_SIM        == <<"S", "I", "M">>
U_Nao        == <<"N", "ã", "o">>
U_As_vezes   == <<"À", "s", " ", "v", "e", "z", "e", "s">>
U_Frequente  == <<"F", "r", "e", "q", "u", "e", "n", "t", "e">>
U_Sempre     == <<"S", "e", "m", "p", "r", "e">>
U_Carro      == <<"C", "a", "r", "r", "o">>
U_Automovel  == <<"A", "u", "t", "o", "m", "ó", "v", "e", "l">>
U_Bicicleta  == <<"B", "i", "c", "i", "c", "l", "e", "t", "a">>
U_A_pe       == <<"A", " ", "p", "é">>
U_Transporte_publico ==
    <<"T", "r", "a", "n", "s", "p", "o", "r", "t", "e", " ", "p", "ú", "b", "l", "i", "c", "o">>
U_Moto       == <<"M", "o", "t", "o">>
U_Feminino   == <<"F", "e", "m", "i", "n", "i", "n", "o">>
U_Masculino  == <<"M", "a", "s", "c", "u", "l", "i", "n", "o">>
U_Quase_sempre == <<"Q", "u", "a", "s", "e", " ", "s", "e", "m", "p", "r", "e">>
U_abc        == <<"a", "b", "c">>

Canonicos == UNION {SCHEMA_CATEGORIAS[c] : c \in DOMAIN SCHEMA_CATEGORIAS}

Vocabulario ==
    Canonicos
    \cup {t_sim, t_yes, t_true, t_1, t_y, t_sempre, t_always, t_frequente, t_frequently,
          t_as_vezes, t_as_vezes_acento, t_sometimes, t_carro, t_automovel, t_bicicleta,
          t_bike, t_moto, t_motocicleta, t_transporte, t_pe, t_fem}
    \cup {U_Sim, U_SIM, U_Nao, U_As_vezes, U_Frequente, U_Sempre, U_Carro, U_Automovel,
          U_Bicicleta, U_A_pe, U_Transporte_publico, U_Moto, U_Feminino, U_Masculino,
          U_Quase_sempre, U_abc, <<>>}

\* characters put around a token: a blank, which strip() removes, and a letter
PadChars == {" ", "x"}

RECURSIVE Pads(_)
Pads(n) ==
    IF n = 0 THEN {<<>>}
    ELSE Pads(n - 1) \cup {<<c>> \o p : c \in PadChars, p \in {q \in Pads(n - 1) : Len(q) = n - 1}}

\* the texts tried as categorical values
Textos == {p \o t \o q : p \in Pads(MaxPad), t \in Vocabulario, q \in Pads(MaxPad)}

\* the cells tried as categorical values: texts, a missing value, None
CelulasCategoricas == {Str(s) : s \in Textos} \cup {NaN, None}

\* the cells tried as numeric values of the schema step
CelulasNumericas ==
    {Num(0), Num(30 * Milli), NaN, Str(U_abc), Str(<<>>), Str(<<"3", "0">>),
     Str(<<" ", "7", " ">>)}

\* the one-row frames handed to _aplicar_schema
FramesSchema ==
    {DataFrame(<<[c \in {col} |-> x]>>) :
        col \in DOMAIN SCHEMA_CATEGORIAS, x \in CelulasCategoricas}
    \cup {DataFrame(<<[c \in {col} |-> x]>>) : col \in SCHEMA_NUMERICAS, x \in CelulasNumericas}

NA == "NA"

InitSchema ==
    /\ operacao = "nenhuma"
    /\ df_entrada \in FramesSchema
    /\ forma = NA /\ feature_names = NA /\ preds = NA /\ df_usuario = NA
    /\ df_proc = NA /\ retorno = NA /\ erro = NA

\* a call of _aplicar_schema(df_entrada)
AplicarSchema ==
    /\ operacao = "nenhuma"
    /\ operacao' = "_aplicar_schema"
    /\ df_proc' = _aplicar_schema(df_entrada)
    /\ erro' = ""
    /\ UNCHANGED <<df_entrada, forma, feature_names, preds, df_usuario, retorno>>

NextSchema == AplicarSchema

SpecSchema == InitSchema /\ [][NextSchema]_vars

\* the column and the cell of the one-row frame of the schema step
ColunaSchema == CHOOSE c \in df_entrada.columns : TRUE
EntradaSchema == df_entrada.rows[1][ColunaSchema]
SaidaSchema == df_proc.rows[1][ColunaSchema]
SchemaFeito == operacao = "_aplicar_schema"

----------------------------------------------------------------------------
(* Claims about the schema step, checked under SpecSchema.                 *)

EhTextoCategorico ==
    /\ SchemaFeito
    /\ ColunaSchema \in DOMAIN SCHEMA_CATEGORIAS

\* C3: normalizing a value that already is one of its column's declared
\* categories returns it unchanged, for every categorical column.
C3_CanonicoInalterado ==
    (EhTextoCategorico /\ EntradaSchema.t = "str"
        /\ EntradaSchema.s \in SCHEMA_CATEGORIAS[ColunaSchema])
    => SaidaSchema = EntradaSchema

\* the folded tokens a column gives a meaning to
Reconhecido(col, v) ==
    CASE col \in {HISTORICO, FUMANTE, MONITORA, CALORICO} -> v \in Afirmativos
      [] col \in {ENTRE_REF, ALCOOL} ->
            v \in {t_sempre, t_always, t_frequente, t_frequently, t_as_vezes, t_sometimes}
      [] col = TRANSPORTE ->
            \/ v \in {t_carro, t_automovel, t_bicicleta, t_bike, t_moto, t_motocicleta}
            \/ Contains(v, t_transporte) \/ Contains(v, t_pe)
      [] col = GENERO -> Contains(v, t_fem)

\* the default of each categorical column
Padrao(col) ==
    CASE col = TRANSPORTE -> T_Automobile
      [] col = GENERO -> T_Male
      [] OTHER -> T_No

\* C4: after _aplicar_schema every categorical column holds a member of its
\* declared category set, whatever the input was (a recognized token, any other
\* text, the empty text, a missing value, None), and an input the column does not
\* recognize becomes the column's default.
C4_VocabularioFechado ==
    EhTextoCategorico
    => /\ SaidaSchema.t = "str"
       /\ SaidaSchema.s \in SCHEMA_CATEGORIAS[ColunaSchema]
       /\ ~Reconhecido(ColunaSchema, _norm(EntradaSchema))
            => SaidaSchema = Str(Padrao(ColunaSchema))

\* an unmapped transport text, and a missing gender, came out as the defaults
C4_Witness ==
    /\ EhTextoCategorico
    /\ \/ ColunaSchema = TRANSPORTE /\ EntradaSchema = Str(U_abc)
             /\ SaidaSchema = Str(T_Automobile)
       \/ ColunaSchema = GENERO /\ EntradaSchema = NaN /\ SaidaSchema = Str(T_Male)

\* the four-way mapping of the claim: containment, in the order always,
\* frequently, sometimes
FrequenciaPorContencao(v) ==
    IF Contains(v, t_sempre) \/ Contains(v, t_always) THEN T_Always
    ELSE IF Contains(v, t_frequente) \/ Contains(v, t_frequently) THEN T_Frequently
    ELSE IF Contains(v, t_as_vezes) \/ Contains(v, t_sometimes) THEN T_Sometimes
    ELSE T_No

\* C10: in the snacking and alcohol columns a folded token that contains
\* "sempre"/"always" maps to Always, else one that contains
\* "frequente"/"frequently" to Frequently, else one that contains
\* "as vezes"/"sometimes" to Sometimes, else No.
C10_FrequenciaPorContencao ==
    (EhTextoCategorico /\ ColunaSchema \in {ENTRE_REF, ALCOOL})
    => SaidaSchema = Str(FrequenciaPorContencao(_norm(EntradaSchema)))

----------------------------------------------------------------------------
(* app.py: the BMI bucketing shown next to the prediction.                 *)

\* a bucketing whose second comparison is <= where the code has <
classificar_imc_limite_inclusivo(imc) ==
    IF imc < 18500 THEN "Peso Insuficiente"
    ELSE IF imc <= 25000 THEN "Peso Normal"
    ELSE IF imc < 27000 THEN "Sobrepeso Nível I"
    ELSE IF imc < 30000 THEN "Sobrepeso Nível II"
    ELSE IF imc < 35000 THEN "Obesidade Tipo I"
    ELSE IF imc < 40000 THEN "Obesidade Tipo II"
    ELSE "Obesidade Tipo III"

\* app.py classificar_imc, on a BMI in thousandths
classificar_imc(imc) ==
    IF imc < 18500 THEN "Peso Insuficiente"
    ELSE IF imc < 25000 THEN "Peso Normal"
    ELSE IF imc < 27000 THEN "Sobrepeso Nível I"
    ELSE IF imc < 30000 THEN "Sobrepeso Nível II"
    ELSE IF imc < 35000 THEN "Obesidade Tipo I"
    ELSE IF imc < 40000 THEN "Obesidade Tipo II"
    ELSE "Obesidade Tipo III"

\* the cut points of the claim, in thousandths
Cortes == {18500, 25000, 27000, 30000, 35000, 40000}

\* the BMI values tried: zero, a coarse grid, and the neighbourhood of every cut
ImcValores ==
    {k * 5 * Milli : k \in 0..10}
    \cup {c + d : c \in Cortes, d \in (0 - MaxDelta)..MaxDelta}
    \cup {c + d * 10 : c \in Cortes, d \in (0 - MaxDelta)..MaxDelta}

InitImc ==
    /\ operacao = "nenhuma"
    /\ df_entrada \in ImcValores \X ImcValores
    /\ forma = NA /\ feature_names = NA /\ preds = NA /\ df_usuario = NA
    /\ df_proc = NA /\ retorno = NA /\ erro = NA

\* classificar_imc called on each of the two values
ClassificarImc ==
    /\ operacao = "nenhuma"
    /\ operacao' = "classificar_imc"
    /\ retorno' = <<classificar_imc(df_entrada[1]), classificar_imc(df_entrada[2])>>
    /\ erro' = ""
    /\ UNCHANGED <<df_entrada, forma, feature_names, preds, df_usuario, df_proc>>

NextImc == ClassificarImc

SpecImc == InitImc /\ [][NextImc]_vars

\* the seven categories, in the order of the claim
OrdemCategorias ==
    <<"Peso Insuficiente", "Peso Normal", "Sobrepeso Nível I", "Sobrepeso Nível II",
      "Obesidade Tipo I", "Obesidade Tipo II", "Obesidade Tipo III">>

Ordem(g) == CHOOSE k \in 1..Len(OrdemCategorias) : OrdemCategorias[k] = g

\* C8: every BMI of [0, infinity) falls in exactly one of the seven categories,
\* the k-th category being the values with exactly k-1 cut points at or below
\* them (so < 18.5, < 25, < 27, < 30, < 35, < 40, and >= 40 last); the category
\* never goes down when the BMI goes up; a BMI of 0.0 is in the lowest one.
C8_ParticaoMonotona ==
    operacao = "classificar_imc"
    => /\ \A i \in {1, 2} :
            /\ Cardinality({k \in 1..Len(OrdemCategorias) : OrdemCategorias[k] = retorno[i]}) = 1
            /\ Ordem(retorno[i]) = 1 + Cardinality({c \in Cortes : c <= df_entrada[i]})
            /\ df_entrada[i] = 0 => retorno[i] = "Peso Insuficiente"
       /\ df_entrada[1] <= df_entrada[2] => Ordem(retorno[1]) <= Ordem(retorno[2])

\* the two sides of the cut at 25 were classified
C8_Witness ==
    /\ operacao = "classificar_imc"
    /\ df_entrada = <<24999, 25000>>
    /\ retorno = <<"Peso Normal", "Sobrepeso Nível I">>

----------------------------------------------------------------------------
(* predictor.py: derived metrics.                                          *)

T_Saudavel    == <<"S", "a", "u", "d", "á", "v", "e", "l">>
T_NaoSaudavel == <<"N", "ã", "o", " ", "S", "a", "u", "d", "á", "v", "e", "l">>

\* bool(x) of a cell: zero, the empty text and None are falsy; NaN is truthy
Truthy(x) ==
    CASE x.t = "num"  -> x.n # 0
      [] x.t = "str"  -> x.s # <<>>
      [] x.t = "nan"  -> TRUE
      [] x.t = "none" -> FALSE

\* row.get(col, default) on a row of df
RowGet(df, i, col, default) == IF col \in df.columns THEN df.rows[i][col] ELSE default

\* float(x) raises: a text that is no number (ValueError), None (TypeError)
FloatRaises(x) == x.t = "none" \/ (x.t = "str" /\ ParseFloat(x.s) < 0)

\* float(x) when it does not raise: a number, or NaN
Float(x) ==
    CASE x.t = "num" -> x
      [] x.t = "str" -> Num(ParseFloat(x.s))
      [] OTHER -> NaN

\* the lambda of calcular_imc takes the division
ImcDivide(df, i) ==
    Truthy(RowGet(df, i, PESO, None)) /\ Truthy(RowGet(df, i, ALTURA, None))

\* the lambda of calcular_imc raises on row i: float() of either cell, or a
\* height that parses to zero (ZeroDivisionError)
ImcLinhaRaises(df, i) ==
    /\ ImcDivide(df, i)
    /\ \/ FloatRaises(df.rows[i][PESO])
       \/ FloatRaises(df.rows[i][ALTURA])
       \/ Float(df.rows[i][ALTURA]) = Num(0)

\* weight / height ** 2 in thousandths; NaN when either operand is NaN
Quociente(w, h) ==
    IF w.t = "nan" \/ h.t = "nan" THEN NaN
    ELSE Num((w.n * Milli) \div ((h.n * h.n) \div Milli))

\* the lambda of calcular_imc on row i, when it does not raise
ImcLinha(df, i) ==
    IF ImcDivide(df, i)
    THEN Quociente(Float(df.rows[i][PESO]), Float(df.rows[i][ALTURA]))
    ELSE Num(0)

\* df with the column col added, holding valores[i] in row i
WithColumn(df, col, valores) ==
    Frame(df.columns \cup {col},
          [i \in 1..Len(df.rows) |->
             [c \in df.columns \cup {col} |-> IF c = col THEN valores[i] ELSE df.rows[i][c]]])

calcular_imc_raises(df) ==
    IMC \notin df.columns /\ \E i \in 1..Len(df.rows) : ImcLinhaRaises(df, i)

\* predictor.py calcular_imc
calcular_imc(df) ==
    IF IMC \notin df.columns THEN WithColumn(df, IMC, [i \in 1..Len(df.rows) |-> ImcLinha(df, i)]) ELSE df

\* float(x) >= limite, false for NaN
FloatGeq(x, limite) == Float(x).t = "num" /\ Float(x).n >= limite

\* avaliar raises on row i: float() of one of the three habit cells
AvaliarRaises(df, i) ==
    \E c \in {ATIVIDADE, VEGETAIS, AGUA} : FloatRaises(RowGet(df, i, c, Num(0)))

\* predictor.py calcular_estilo.avaliar on row i, when it does not raise
avaliar(df, i) ==
    LET cond_atividade == FloatGeq(RowGet(df, i, ATIVIDADE, Num(0)), 3 * Milli)
        cond_vegetais  == FloatGeq(RowGet(df, i, VEGETAIS, Num(0)), 3 * Milli)
        cond_agua      == FloatGeq(RowGet(df, i, AGUA, Num(0)), 2 * Milli)
        val_calorico   == _norm(RowGet(df, i, CALORICO, Str(<<>>)))
        cond_calorico  == val_calorico \notin Afirmativos
    IN  IF cond_atividade /\ cond_vegetais /\ cond_calorico /\ cond_agua
        THEN Str(T_Saudavel) ELSE Str(T_NaoSaudavel)

calcular_estilo_raises(df) ==
    ESTILO \notin df.columns /\ \E i \in 1..Len(df.rows) : AvaliarRaises(df, i)

\* predictor.py calcular_estilo
calcular_estilo(df) ==
    IF ESTILO \notin df.columns THEN WithColumn(df, ESTILO, [i \in 1..Len(df.rows) |-> avaliar(df, i)]) ELSE df

----------------------------------------------------------------------------
(* predictor.py: the prediction call.                                      *)

\* predictor.py TRADUCAO_TARGET
TRADUCAO_TARGET ==
    [r \in {"Insufficient_Weight", "Normal_Weight", "Overweight_Level_I",
            "Overweight_Level_II", "Obesity_Type_I", "Obesity_Type_II", "Obesity_Type_III"} |->
        CASE r = "Insufficient_Weight" -> "Peso Insuficiente"
          [] r = "Normal_Weight"       -> "Peso Normal"
          [] r = "Overweight_Level_I"  -> "Sobrepeso Nível I"
          [] r = "Overweight_Level_II" -> "Sobrepeso Nível II"
          [] r = "Obesity_Type_I"      -> "Obesidade Tipo I"
          [] r = "Obesity_Type_II"     -> "Obesidade Tipo II"
          [] r = "Obesity_Type_III"    -> "Obesidade Tipo III"]

\* TRADUCAO_TARGET.get(str(p), str(p))
Traduzir(p) == IF p \in DOMAIN TRADUCAO_TARGET THEN TRADUCAO_TARGET[p] ELSE p

\* what model.predict may return for a row: the seven classes the table
\* translates, and a label it does not know
RawLabels == (DOMAIN TRADUCAO_TARGET) \cup {"0"}

\* getattr(model, "feature_names_in_", None) is None
NoFeatureNames == {}

\* the columns of the schema, as the feature names of a model that declares them
FEATURES == SCHEMA_NUMERICAS \cup DOMAIN SCHEMA_CATEGORIAS

\* df[feature_names]
SelectColumns(df, names) ==
    Frame(names, [i \in 1..Len(df.rows) |-> [c \in names |-> df.rows[i][c]]])

\* round(x, 2) raises TypeError on a text and on None
RoundRaises(x) == x.t \in {"str", "none"}

\* round(x, 2) of a number in thousandths; NaN stays NaN
Round2(x) == IF x.t = "num" THEN Num(((x.n + 5) \div 10) * 10) ELSE x

\* the dict appended to resultados for row i
Resultado(df, p, i) ==
    [pred_label_raw |-> p[i],
     pred_label_pt  |-> Traduzir(p[i]),
     IMC            |-> Round2(df.rows[i][IMC]),
     estilo         |-> df.rows[i][ESTILO]]

\* a return statement that hands back the list whatever its length
RetornarSempreLista(resultados) == [tipo |-> "list", itens |-> resultados]

\* predictor.py prever_obesidade, the return statement
Retornar(resultados) ==
    IF Len(resultados) = 1
    THEN [tipo |-> "dict", itens |-> <<resultados[1]>>]
    ELSE [tipo |-> "list", itens |-> resultados]

\* a result list assembled back to front
MontarResultadosInvertido(df, p) ==
    [i \in 1..Len(p) |-> Resultado(df, p, Len(p) + 1 - i)]

\* predictor.py prever_obesidade, the loop that assembles resultados
MontarResultados(df, p) == [i \in 1..Len(p) |-> Resultado(df, p, i)]

Saida(e, u, pr, p, r) ==
    [erro |-> e, df_usuario |-> u, df_proc |-> pr, preds |-> p, retorno |-> r]

\* predictor.py prever_obesidade up to the model call, on the records recs held
\* in a container of kind f, with a model whose feature names are fn
Preprocessar(recs, f, fn) ==
    IF f \notin {"dict", "list", "DataFrame"} THEN Saida("entrada", NA, NA, NA, NA)
    ELSE
    LET df0 == DataFrame(recs) IN
    IF calcular_imc_raises(df0) THEN Saida("calcular_imc", NA, NA, NA, NA)
    ELSE
    LET df1 == calcular_imc(df0) IN
    IF calcular_estilo_raises(df1) THEN Saida("calcular_estilo", df1, NA, NA, NA)
    ELSE
    LET usuario == calcular_estilo(df1)
        proc == _aplicar_schema(_renomear_colunas(usuario))
    IN
    IF fn # NoFeatureNames /\ ~(fn \subseteq proc.columns)
    THEN Saida("feature_names", usuario, proc, NA, NA)
    ELSE Saida("", usuario, IF fn # NoFeatureNames THEN SelectColumns(proc, fn) ELSE proc,
               NA, NA)

\* predictor.py prever_obesidade from the model call on: pre is what the steps
\* before it left, p what model.predict returned
Predizer(pre, p) ==
    IF pre.erro # "" THEN pre
    ELSE IF \E i \in 1..Len(p) : RoundRaises(pre.df_usuario.rows[i][IMC])
    THEN Saida("round", pre.df_usuario, pre.df_proc, p, NA)
    ELSE Saida("", pre.df_usuario, pre.df_proc, p,
               Retornar(MontarResultados(pre.df_usuario, p)))

----------------------------------------------------------------------------
(* Inputs of the prediction call.                                          *)

\* the record the form of app.py submits with its initial widget values
Base ==
    [c \in (FEATURES \ {IMC}) |->
        CASE c = IDADE        -> Num(30 * Milli)
          [] c = ALTURA       -> Num(1700)
          [] c = PESO         -> Num(70 * Milli)
          [] c = GENERO       -> Str(U_Feminino)
          [] c = VEGETAIS     -> Num(3 * Milli)
          [] c = REFEICOES    -> Num(3 * Milli)
          [] c = AGUA         -> Num(2 * Milli)
          [] c = CALORICO     -> Str(U_Nao)
          [] c = ENTRE_REF    -> Str(U_As_vezes)
          [] c = ATIVIDADE    -> Num(3 * Milli)
          [] c = DISPOSITIVOS -> Num(4 * Milli)
          [] c = HISTORICO    -> Str(U_Sim)
          [] c = FUMANTE      -> Str(U_Nao)
          [] c = MONITORA     -> Str(U_Nao)
          [] c = ALCOOL       -> Str(U_Nao)
          [] c = TRANSPORTE   -> Str(U_Carro)]

Ausente == [t |-> "ausente", s |-> <<>>, n |-> 0]

\* rec with the key col set to x, or without the key when x is Ausente
Com(rec, col, x) ==
    IF x = Ausente THEN [c \in (DOMAIN rec) \ {col} |-> rec[c]]
    ELSE [c \in (DOMAIN rec) \cup {col} |-> IF c = col THEN x ELSE rec[c]]

\* Base with one numeric column missing, zero, not a number, or empty
RegistrosNumericos ==
    {Com(Base, c, x) : c \in SCHEMA_NUMERICAS,
                       x \in {Ausente, Num(0), Num(22 * Milli), Str(U_abc), Str(<<>>)}}

\* Base with every combination of weight and height
RegistrosPesoAltura ==
    {Com(Com(Base, PESO, w), ALTURA, h) :
        w \in {Ausente, Num(0), Num(60 * Milli), Num(95 * Milli), Str(U_abc), Str(<<"7", "0">>)},
        h \in {Ausente, Num(0), Num(1700), Str(U_abc), Str(<<"0">>), Str(<<"2">>)}}

\* the high-calorie flag under its canonical name, under the legacy name, or absent
Sinalizadores ==
    {[col |-> c, val |-> Str(v)] : c \in {CALORICO, CALORICOS},
                                   v \in {U_Sim, U_Nao, U_SIM, T_Yes, t_y, t_1, U_abc}}
    \cup {[col |-> CALORICO, val |-> Ausente]}

\* Base with every combination of the four inputs of the lifestyle label, with
\* and without a lifestyle label of its own
RegistrosEstilo ==
    {Com(Com(Com(Com(Com(Com(Base, CALORICO, Ausente), k.col, k.val),
                     ATIVIDADE, a), VEGETAIS, v), AGUA, w), ESTILO, e) :
        k \in Sinalizadores,
        a \in {Ausente, Num(2 * Milli), Num(3 * Milli)},
        v \in {Num(2900), Num(3 * Milli)},
        w \in {Num(1900), Num(2 * Milli)},
        e \in {Ausente, Str(T_NaoSaudavel)}}

RegistrosUnicos == RegistrosNumericos \cup RegistrosPesoAltura \cup RegistrosEstilo

\* the records batches are made of: they differ in BMI and lifestyle, and in the
\* keys they carry
RegistrosLote ==
    {Base,
     Com(Com(Base, PESO, Num(95 * Milli)), CALORICO, Str(U_Sim)),
     Com(Base, PESO, Ausente),
     Com(Base, ESTILO, Str(T_NaoSaudavel)),
     Com(Com(Base, ALTURA, Num(0)), ATIVIDADE, Num(Milli))}

RECURSIVE Lotes(_)
Lotes(n) ==
    IF n = 0 THEN {<<>>}
    ELSE Lotes(n - 1) \cup {Append(l, r) : l \in {q \in Lotes(n - 1) : Len(q) = n - 1},
                                           r \in RegistrosLote}

\* the arguments tried: every single record, and the batches of 2..MaxLote records
Entradas ==
    {<<r>> : r \in RegistrosUnicos} \cup {l \in Lotes(MaxLote) : Len(l) >= 2}

\* the containers a list of records can arrive in; "tuple" is none of the three
\* the code accepts
Formas(recs) == IF Len(recs) = 1 THEN {"dict", "list", "DataFrame", "tuple"}
                ELSE {"list", "DataFrame"}

\* the arguments of the call, and the model it will consult
Init ==
    /\ operacao = "nenhuma"
    /\ df_entrada \in Entradas
    /\ forma \in Formas(df_entrada)
    /\ feature_names \in {NoFeatureNames, FEATURES}
    /\ preds = NA /\ df_usuario = NA /\ df_proc = NA /\ retorno = NA /\ erro = NA

\* one call of prever_obesidade; model.predict answers one raw label per row
PreverObesidade ==
    /\ operacao = "nenhuma"
    /\ \E pre \in {Preprocessar(df_entrada, forma, feature_names)} :
       \E p \in [1..Len(df_entrada) -> RawLabels] :
       \E out \in {Predizer(pre, p)} :
          /\ operacao' = "prever_obesidade"
          /\ preds' = out.preds
          /\ df_usuario' = out.df_usuario
          /\ df_proc' = out.df_proc
          /\ retorno' = out.retorno
          /\ erro' = out.erro
          /\ UNCHANGED <<df_entrada, forma, feature_names>>

Next == PreverObesidade

Spec == Init /\ [][Next]_vars

----------------------------------------------------------------------------
(* Claims about the prediction call, checked under Spec.                   *)

Chamada == operacao = "prever_obesidade"
Retornou == Chamada /\ erro = ""
Linhas == 1..Len(df_entrada)

\* the translated labels that contain "Obesidade"
ContemObesidade(rotulo) ==
    rotulo \in {"Obesidade Tipo I", "Obesidade Tipo II", "Obesidade Tipo III"}

\* C1: in every row of a returned batch, a BMI below 25.0 with a translated label
\* that contains "Obesidade" gives the label "Sobrepeso Nível II"; a BMI of 25.0
\* or more gives the translated label unchanged.
C1_OverrideClinico ==
    Retornou
    => \A i \in Linhas :
          LET imc == df_usuario.rows[i][IMC]
              pt  == Traduzir(preds[i])
          IN  imc.t = "num"
              => /\ (imc.n < 25 * Milli /\ ContemObesidade(pt))
                      => retorno.itens[i].pred_label_pt = "Sobrepeso Nível II"
                 /\ imc.n >= 25 * Milli => retorno.itens[i].pred_label_pt = pt

\* C2: a call with N records returns N results, the i-th carrying the raw
\* prediction, its translation, the (rounded) BMI and the lifestyle label of the
\* i-th record, whose own fields are those of row i; with exactly one record the
\* call returns the single result itself, with more a sequence.
C2_LoteEmOrdem ==
    Retornou
    => /\ Len(retorno.itens) = Len(df_entrada)
       /\ retorno.tipo = (IF Len(df_entrada) = 1 THEN "dict" ELSE "list")
       /\ \A i \in Linhas :
             /\ \A c \in DOMAIN df_entrada[i] : df_usuario.rows[i][c] = df_entrada[i][c]
             /\ retorno.itens[i].pred_label_raw = preds[i]
             /\ retorno.itens[i].pred_label_pt =
                   (IF preds[i] \in DOMAIN TRADUCAO_TARGET THEN TRADUCAO_TARGET[preds[i]]
                    ELSE preds[i])
             /\ retorno.itens[i].IMC = Round2(df_usuario.rows[i][IMC])
             /\ retorno.itens[i].estilo = df_usuario.rows[i][ESTILO]

\* a batch of two records of different weight and lifestyle came back as a
\* sequence, and a single record as a single result
C2_Witness ==
    /\ Retornou
    /\ \/ /\ Len(df_entrada) = 2
          /\ retorno.tipo = "list"
          /\ df_entrada[1][PESO] = Num(95 * Milli) /\ df_entrada[2] = Base
          /\ retorno.itens[1].IMC = Num(32870) /\ retorno.itens[2].IMC = Num(24220)
          /\ retorno.itens[1].estilo = Str(T_NaoSaudavel)
          /\ retorno.itens[2].estilo = Str(T_Saudavel)
          /\ preds = <<"Obesity_Type_I", "Normal_Weight">>
       \/ /\ Len(df_entrada) = 1 /\ forma = "list" /\ retorno.tipo = "dict"

\* the record lacks the field, or holds a falsy value in it
FaltaOuFalsy(rec, c) == c \notin DOMAIN rec \/ ~Truthy(rec[c])

\* C5: in a batch without a BMI field, every row whose weight or height is
\* missing or falsy gets the BMI 0.0 and calcular_imc raises nothing.
C5_ImcPadraoZero ==
    (Chamada /\ erro # "entrada" /\ \A i \in Linhas : IMC \notin DOMAIN df_entrada[i])
    => \A i \in Linhas :
          (FaltaOuFalsy(df_entrada[i], PESO) \/ FaltaOuFalsy(df_entrada[i], ALTURA))
          => /\ erro # "calcular_imc"
             /\ df_usuario.rows[i][IMC] = Num(0)

\* the text is no number
NaoNumerico(x) == x.t = "str" /\ ParseFloat(x.s) < 0

\* C6: a record that holds an unparseable value in a numeric column goes through
\* the derived metrics, the schema and the assembly of the result without an
\* error, and the column reaches the model as NaN.
C6_NumericoNuncaFalha ==
    (Chamada /\ erro # "entrada")
    => \A i \in Linhas : \A c \in SCHEMA_NUMERICAS \cap DOMAIN df_entrada[i] :
          NaoNumerico(df_entrada[i][c])
          => /\ erro \notin {"calcular_imc", "calcular_estilo", "round"}
             /\ c \in df_proc.columns => df_proc.rows[i][c] = NaN

\* the record's habit c is a number of at least limite
HabitoGeq(rec, c, limite) == c \in DOMAIN rec /\ rec[c].t = "num" /\ rec[c].n >= limite

\* the four conditions of the claim, on a record
QuatroCondicoes(rec) ==
    /\ HabitoGeq(rec, ATIVIDADE, 3 * Milli)
    /\ HabitoGeq(rec, VEGETAIS, 3 * Milli)
    /\ HabitoGeq(rec, AGUA, 2 * Milli)
    /\ _norm(IF CALORICO \in DOMAIN rec THEN rec[CALORICO] ELSE Str(<<>>)) \notin Afirmativos

\* C7: a record without a lifestyle field of its own is labelled "Saudável" when
\* the four conditions hold and "Não Saudável" otherwise; a record with the
\* field keeps its value.
C7_EstiloQuatroCondicoes ==
    Retornou
    => \A i \in Linhas :
          IF ESTILO \in DOMAIN df_entrada[i]
          THEN retorno.itens[i].estilo = df_entrada[i][ESTILO]
          ELSE retorno.itens[i].estilo =
                  (IF QuatroCondicoes(df_entrada[i]) THEN Str(T_Saudavel)
                   ELSE Str(T_NaoSaudavel))

\* the records with the legacy column name replaced by the canonical one
ComNomeCanonico(recs) ==
    [i \in 1..Len(recs) |->
       [c \in {IF k \in DOMAIN RENAME_MAP THEN RENAME_MAP[k] ELSE k : k \in DOMAIN recs[i]} |->
          IF c \in DOMAIN recs[i] THEN recs[i][c]
          ELSE recs[i][CHOOSE k \in DOMAIN RENAME_MAP : RENAME_MAP[k] = c]]]

\* C9: the rename comes before everything else, so a call whose record names
\* the high-calorie flag by its legacy name returns what the same call returns
\* with the canonical name, and hands the model the same rows.
C9_AliasAntesDeTudo ==
    (Retornou /\ \E i \in Linhas : CALORICOS \in DOMAIN df_entrada[i])
    => \E canon \in {Predizer(Preprocessar(ComNomeCanonico(df_entrada), forma,
                                           feature_names), preds)} :
          /\ canon.erro = ""
          /\ canon.retorno = retorno
          /\ canon.df_proc = df_proc

====
